---- MODULE Spec2Model ----
(***************************************************************************)
(* Model of the add-on src/addonmonolith/__init__.py: three daily          *)
(* operations (retire, suspendLeeches, adjustReview) and update_last_run,  *)
(* registered on the host's main_window_did_init hook, working on the      *)
(* host's cards, notes and deck configurations.                            *)
(*                                                                         *)
(* Fractions of the configuration (suspend_frac, unsuspend_buffer_frac)    *)
(* are multiples of 1/Den with Den a power of two, values for which the    *)
(* float arithmetic of the source is exact.  Measured averages and the     *)
(* retention are exact rationals <<numerator, denominator>>.               *)
(***************************************************************************)
EXTENDS Integers, Sequences, FiniteSets, TLC

VARIABLES
    last_run,               \* config.last_run, persisted by config.save()
    day,                    \* what get_day() returns now
    dryrun, debug, verbose, \* config flags, read when the module is loaded
    suspend_frac,           \* config.suspend_frac, in units of 1/Den
    unsuspend_buffer_frac,  \* config.unsuspend_buffer_frac, in units of 1/Den
    min_count,              \* config.min_count
    suspended,              \* host: set of suspended cards
    tagged,                 \* host: set of notes carrying config.retired_tag
    perDay,                 \* host: deck config id -> <<rev.perDay, new.perDay>>
    revlog,                 \* host: deck config id -> aggregate of the review log
    pc,                     \* next callback of main_window_did_init, or "idle"
    run,                    \* what the callbacks of this startup did so far
    marked,                 \* the days on which last_run was changed
    leech,                  \* locals of the last suspendLeeches computation
    quota                   \* locals of the last adjustReview entry

vars == <<last_run, day, dryrun, debug, verbose, suspend_frac,
          unsuspend_buffer_frac, min_count, suspended, tagged, perDay,
          revlog, pc, run, marked, leech, quota>>

---------------------------------------------------------------------------
(* Bounds *)

FracBits == 2
Den == 2 ^ FracBits
MaxFrac == Den + 1          \* fractions 0 .. MaxFrac/Den, one step above 1
MaxN == 4                   \* candidate cards in the index computation
MaxMinCount == 5
MaxDay == 2
MaxReviews == 5            \* reviews of a deck in the trailing window
MaxTimeSteps == 3          \* measured average review times, in half minutes

Max(a, b) == IF a >= b THEN a ELSE b
Min(a, b) == IF a <= b THEN a ELSE b

---------------------------------------------------------------------------
(* suspendLeeches: the cutoff indices (lines 138-147) *)

\* floor(n * (1.0 - frac)) with frac = f / Den
FloorFrac(n, f) == (n * (Den - f)) \div Den

\* max(min(ind, n - 1), 0)  # within bounds
WithinBoundsNoCap(ind, n) == Max(ind, 0)
WithinBounds(ind, n) == Max(Min(ind, n - 1), 0)

SuspendInd(n, sf, mc) == WithinBounds(Max(FloorFrac(n, sf), mc), n)

UnsuspendFracMinus(sf, bf) == Max(0, sf - bf)
UnsuspendFrac(sf, bf) == Max(0, sf + bf)

UnsuspendInd(n, sf, bf, mc) ==
    WithinBounds(Max(FloorFrac(n, UnsuspendFrac(sf, bf)), mc), n)

\* locals of suspendLeeches for n candidate cards; the assert of line 149
LeechLocals(n, sf, bf, mc) ==
    LET s == SuspendInd(n, sf, mc)
        u == UnsuspendInd(n, sf, bf, mc)
    IN  [N |-> n, min_count |-> mc, suspend_raw |-> FloorFrac(n, sf),
         unsuspend_raw |-> FloorFrac(n, UnsuspendFrac(sf, bf)),
         suspend_ind |-> s, unsuspend_ind |-> u, assert_ok |-> (u <= s)]

NoLeech == [N |-> 0, min_count |-> 0, suspend_raw |-> 0, unsuspend_raw |-> 0,
            suspend_ind |-> 0, unsuspend_ind |-> 0, assert_ok |-> TRUE]

---------------------------------------------------------------------------
(* The host collection: review cards, their notes, decks, intervals and    *)
(* cumulative review times.  Deck names are paths: <<1>> is "A", <<1, 1>>   *)
(* is its subdeck "A::A", <<2>> is "B"; the search term "deck:A" matches A *)
(* and its subdecks.                                                       *)

NumCards == 3
Cards == 1 .. NumCards
note_of(c) == (c + 1) \div 2                  \* cards 1 and 2 are siblings
Notes == {note_of(c) : c \in Cards}
deck_of(c) == CASE c % 3 = 1 -> <<1>>  []  c % 3 = 2 -> <<1, 1>>  []  OTHER -> <<2>>
interval(c) == CASE c % 3 = 1 -> 3  []  c % 3 = 2 -> 1  []  OTHER -> 2
review_time(c) == CASE c % 3 = 1 -> 20  []  c % 3 = 2 -> 30  []  OTHER -> 10

IsPrefix(p, s) == Len(p) <= Len(s) /\ SubSeq(s, 1, Len(p)) = p

\* "deck:<name>"
InDeck(name) == {c \in Cards : IsPrefix(name, deck_of(c))}

\* config.deck_retirements and config.review_time_limits
deck_retirements ==
    << [deck_name |-> <<1>>, max_interval_days |-> 2],
       [deck_name |-> <<2>>, max_interval_days |-> 1] >>

review_time_limits ==
    << [deck_name |-> <<1>>, review_time_limit_sec |-> 3600,
        new_card_assumed_repeat |-> 5],
       [deck_name |-> <<2>>, review_time_limit_sec |-> 1800,
        new_card_assumed_repeat |-> 2] >>

---------------------------------------------------------------------------
(* What one callback does: the host state it works on and the calls it     *)
(* issued.  exc is set once an exception is raised; every later statement   *)
(* of the callback is then skipped.                                        *)

Start(susp, tags, pd) ==
    [susp |-> susp, tags |-> tags, perDay |-> pd, sus |-> {}, unsus |-> {},
     muts |-> 0, prompts |-> 0, exc |-> FALSE, both |-> FALSE]

Raise(st) == [st EXCEPT !.exc = TRUE]

\* askUser(...) behind "not config.verbose or": the dialog is shown only
\* when verbose is set
Ask(st) == IF st.exc \/ ~verbose THEN st ELSE [st EXCEPT !.prompts = @ + 1]
Go(answer) == ~verbose \/ answer

\* dryrun_fence: the wrapped call, or nop
DryrunFenceOff(call, nop) == call
dryrun_fence(call, nop) == IF dryrun THEN nop ELSE call

\* mw.col.sched.suspend_cards(cards)
suspend_cards(st, cards, fails) ==
    IF st.exc THEN st
    ELSE dryrun_fence(
           IF fails THEN Raise(st)
           ELSE [st EXCEPT !.susp = @ \cup cards, !.sus = @ \cup cards,
                           !.muts = @ + 1],
           st)

\* mw.col.sched.unsuspend_cards(cards)
unsuspend_cards(st, cards, fails) ==
    IF st.exc THEN st
    ELSE dryrun_fence(
           IF fails THEN Raise(st)
           ELSE [st EXCEPT !.susp = @ \ cards, !.unsus = @ \cup cards,
                           !.muts = @ + 1],
           st)

\* note.add_tag(tag) for the note of every card, then update_notes
tag_cards(st, cards, fails) ==
    IF st.exc THEN st
    ELSE dryrun_fence(
           IF fails THEN Raise(st)
           ELSE [st EXCEPT !.tags = @ \cup {note_of(c) : c \in cards},
                           !.muts = @ + 1],
           st)

\* mw.col.decks.save(deck_config)
save_config(st, conf, value, fails) ==
    IF st.exc THEN st
    ELSE dryrun_fence(
           IF fails THEN Raise(st)
           ELSE [st EXCEPT !.perDay[conf] = value, !.muts = @ + 1],
           st)

---------------------------------------------------------------------------
(* retire (lines 166-208) *)

RetireSites == {"find1", "suspend", "tag", "find2", "unsuspend"}
NoFail == <<0, "none">>
RetireFails == {NoFail} \cup ((1 .. Len(deck_retirements)) \X RetireSites)

\* the cards of the first query above the threshold (lines 171-180)
ToRetire(st, rc) ==
    {c \in InDeck(rc.deck_name) :
        /\ c \notin st.susp \/ note_of(c) \notin st.tags
        /\ interval(c) > rc.max_interval_days}

\* the second filter with the comparison of the first one
ToUnretireAbove(st, rc) ==
    {c \in InDeck(rc.deck_name) :
        /\ c \in st.susp /\ note_of(c) \in st.tags
        /\ interval(c) > rc.max_interval_days}

\* the cards of the second query at or below the threshold (lines 192-201)
ToUnretire(st, rc) ==
    {c \in InDeck(rc.deck_name) :
        /\ c \in st.susp /\ note_of(c) \in st.tags
        /\ interval(c) <= rc.max_interval_days}

\* one iteration of the loop over config.deck_retirements; a1 and a2 are the
\* user's answers to the two dialogs
RetireEntry(st, i, a1, a2, fail) ==
    LET rc == deck_retirements[i]
        q1 == IF ~st.exc /\ fail = <<i, "find1">> THEN Raise(st) ELSE st
        to_suspend == ToRetire(q1, rc)
        p1 == Ask(q1)
        s1 == IF Go(a1)
              THEN tag_cards(suspend_cards(p1, to_suspend, fail = <<i, "suspend">>),
                             to_suspend, fail = <<i, "tag">>)
              ELSE p1
        q2 == IF ~s1.exc /\ fail = <<i, "find2">> THEN Raise(s1) ELSE s1
        to_unsuspend == ToUnretire(q2, rc)
        p2 == Ask(q2)
        s2 == IF Go(a2)
              THEN unsuspend_cards(p2, to_unsuspend, fail = <<i, "unsuspend">>)
              ELSE p2
    IN  IF s2.exc THEN s2
        ELSE [s2 EXCEPT !.both = @ \/ (~dryrun /\ Go(a1) /\ Go(a2)
                                       /\ to_suspend \cap to_unsuspend # {})]

RECURSIVE RetireLoop(_, _, _, _)
RetireLoop(st, i, ans, fail) ==
    IF i > Len(deck_retirements) THEN st
    ELSE RetireLoop(RetireEntry(st, i, ans[i][1], ans[i][2], fail), i + 1, ans, fail)

RetireAnswers == [1 .. Len(deck_retirements) -> BOOLEAN \X BOOLEAN]

---------------------------------------------------------------------------
(* suspendLeeches (lines 120-163) *)

LeechFails == {NoFail, <<1, "find">>, <<1, "suspend">>, <<1, "unsuspend">>}

\* sorted(zip(review_card_times, review_card_inds)): tuples compare by time,
\* then by card id
Before(d, c) ==
    \/ review_time(d) < review_time(c)
    \/ review_time(d) = review_time(c) /\ d < c

\* 0-based position of c in the sorted review_card_inds
Rank(c, inds) == Cardinality({d \in inds : Before(d, c)})

\* find_cards("is:review and (-tag:Retired or -is:suspended)")
LeechCandidates(st) ==
    {c \in Cards : note_of(c) \notin st.tags \/ c \notin st.susp}

\* set(review_card_inds[suspend_ind + 1:]) - suspended_cards
CardsToSuspend(inds, s, suspended_cards) ==
    {c \in inds : Rank(c, inds) > s} \ suspended_cards

\* set(review_card_inds[:unsuspend_ind]) & suspended_cards
CardsToUnsuspend(inds, u, suspended_cards) ==
    {c \in inds : Rank(c, inds) < u} \cap suspended_cards

SuspendLeechesRun(st, a, fail) ==
    LET q == IF fail = <<1, "find">> THEN Raise(st) ELSE st
        inds == LeechCandidates(q)
        n == Cardinality(inds)
        loc == LeechLocals(n, suspend_frac, unsuspend_buffer_frac, min_count)
        \* zip(*sorted(zip(...))) of no cards cannot be unpacked (ValueError);
        \* a failed assert raises AssertionError
        c1 == IF ~q.exc /\ (n = 0 \/ ~loc.assert_ok) THEN Raise(q) ELSE q
        cards_to_suspend == CardsToSuspend(inds, loc.suspend_ind, c1.susp)
        cards_to_unsuspend == CardsToUnsuspend(inds, loc.unsuspend_ind, c1.susp)
        p == Ask(c1)
        s2 == IF Go(a)
              THEN unsuspend_cards(
                     suspend_cards(p, cards_to_suspend, fail = <<1, "suspend">>),
                     cards_to_unsuspend, fail = <<1, "unsuspend">>)
              ELSE p
    IN  IF s2.exc THEN s2
        ELSE [s2 EXCEPT !.both = @ \/ (~dryrun /\ Go(a)
                                 /\ cards_to_suspend \cap cards_to_unsuspend # {})]

\* the locals the run computed, when it got as far as computing them
SuspendLeechesLocals(st, fail) ==
    LET n == Cardinality(LeechCandidates(st))
    IN  IF fail = <<1, "find">> \/ n = 0 THEN NoLeech
        ELSE LeechLocals(n, suspend_frac, unsuspend_buffer_frac, min_count)

---------------------------------------------------------------------------
(* adjustReview (lines 211-265) *)

default_review_seconds == 60
goal_retention == <<4, 5>>            \* 0.8

\* Results of the two aggregate queries over the trailing window, as
\* rationals <<n, d>>; NoData is the None that avg() yields over no rows.
NoData == <<0, 0>>
IsData(x) == x[2] # 0

\* Python's "x or y": y when x is None or 0
Or(x, y) == IF IsData(x) /\ x[1] # 0 THEN x ELSE y

OneMinus(x) == <<x[2] - x[1], x[2]>>

\* int(n / d), truncating towards zero
Trunc(n, d) == IF n >= 0 THEN n \div d ELSE -((-n) \div d)

avg_review(log) == Or(log.time, <<default_review_seconds, 1>>)

avg_review_retention(log) == OneMinus(Or(log.again, OneMinus(goal_retention)))

\* <<deck_config["rev"]["perDay"], deck_config["new"]["perDay"]>>
QuotaPerDay(tl, log) ==
    LET a == avg_review(log)
        r == avg_review_retention(log)
    IN  << Trunc(tl.review_time_limit_sec * r[1] * a[2], r[2] * a[1]),
           Trunc(tl.review_time_limit_sec * r[1] * a[2],
                 tl.new_card_assumed_repeat * r[2] * a[1]) >>

\* deck["conf"] of mw.col.decks.by_name(deck_name)
conf_of(deck_name) == deck_name[1]
Confs == {conf_of(review_time_limits[i].deck_name) :
             i \in 1 .. Len(review_time_limits)}

AdjustSites == {"stats", "save"}
AdjustFails == {NoFail} \cup ((1 .. Len(review_time_limits)) \X AdjustSites)

\* one iteration of the loop over config.review_time_limits
AdjustEntry(st, i, a, fail, logs) ==
    LET tl == review_time_limits[i]
        q == IF ~st.exc /\ fail = <<i, "stats">> THEN Raise(st) ELSE st
        p == Ask(q)
    IN  IF Go(a)
        THEN save_config(p, conf_of(tl.deck_name), QuotaPerDay(tl, logs[i]),
                         fail = <<i, "save">>)
        ELSE p

RECURSIVE AdjustLoop(_, _, _, _, _)
AdjustLoop(st, i, ans, fail, logs) ==
    IF i > Len(review_time_limits) THEN st
    ELSE AdjustLoop(AdjustEntry(st, i, ans[i], fail, logs), i + 1, ans, fail, logs)

AdjustAnswers == [1 .. Len(review_time_limits) -> BOOLEAN]

Logs ==
    {[time |-> NoData, again |-> NoData]} \cup
    UNION {{[time |-> <<30 * t, 1>>, again |-> <<k, n>>] :
               t \in 0 .. MaxTimeSteps, k \in 0 .. n} : n \in 1 .. MaxReviews}

---------------------------------------------------------------------------
(* The callbacks of main_window_did_init (lines 277-280) *)

Ops == {"retire", "suspendLeeches", "adjustReview"}

NoRun == [op |-> "none", gate |-> "none", muts |-> 0, prompts |-> 0,
          exc |-> FALSE, sus |-> {}, unsus |-> {}, both |-> FALSE,
          cross |-> FALSE, pending0 |-> FALSE]

NoQuota == [entry |-> 0, log |-> [time |-> NoData, again |-> NoData],
            perDay |-> <<0, 0>>]

\* get_day() and the comparison each operation starts with
GateDoneStrict == last_run > day
GateDone == last_run >= day

\* display_errors: does an exception raised in the callback reach the host?
display_errors(exc) == exc /\ ~debug

\* The host calls the callbacks in the order of registration; an exception
\* that reaches it ends the run of the hook.
AfterCallback(exc, next) == IF display_errors(exc) THEN "idle" ELSE next

\* the callback returned at once: "if config.last_run >= get_day(): return"
Skip(op, next) ==
    /\ pc' = next
    /\ run' = [run EXCEPT !.op = op, !.gate = "done", !.muts = 0,
                          !.prompts = 0, !.exc = FALSE,
                          !.sus = IF op = "retire" THEN @ ELSE {},
                          !.unsus = IF op = "retire" THEN @ ELSE {}]
    /\ UNCHANGED <<suspended, tagged, perDay>>

\* the same, were an exception to undo the calls already made
FinishRollback(op, st, next) ==
    /\ suspended' = IF st.exc THEN suspended ELSE st.susp
    /\ tagged' = IF st.exc THEN tagged ELSE st.tags
    /\ perDay' = IF st.exc THEN perDay ELSE st.perDay
    /\ pc' = AfterCallback(st.exc, next)
    /\ run' = [run EXCEPT !.op = op, !.gate = "pending", !.muts = st.muts,
                          !.prompts = st.prompts, !.exc = st.exc,
                          !.sus = IF op = "retire" THEN st.sus ELSE {},
                          !.unsus = IF op = "retire" THEN st.unsus ELSE {},
                          !.both = @ \/ st.both,
                          !.cross = @ \/ (run.sus \cup st.sus)
                                           \cap (run.unsus \cup st.unsus) # {}]

\* the callback ran and left st.  run.sus and run.unsus are the cards retire
\* passed to suspend_cards and unsuspend_cards, kept until suspendLeeches has
\* run; run.cross tells that some card of this startup was passed to both.
Finish(op, st, next) ==
    /\ suspended' = st.susp
    /\ tagged' = st.tags
    /\ perDay' = st.perDay
    /\ pc' = AfterCallback(st.exc, next)
    /\ run' = [run EXCEPT !.op = op, !.gate = "pending", !.muts = st.muts,
                          !.prompts = st.prompts, !.exc = st.exc,
                          !.sus = IF op = "retire" THEN st.sus ELSE {},
                          !.unsus = IF op = "retire" THEN st.unsus ELSE {},
                          !.both = @ \/ st.both,
                          !.cross = @ \/ (run.sus \cup st.sus)
                                           \cap (run.unsus \cup st.unsus) # {}]

Config == <<dryrun, debug, verbose, suspend_frac, unsuspend_buffer_frac,
            min_count>>

\* the host starts: the add-on is loaded and the hook begins to run
Startup ==
    /\ pc = "idle"
    /\ pc' = "retire"
    /\ run' = [NoRun EXCEPT !.pending0 = ~GateDone]
    /\ UNCHANGED <<last_run, day, Config, suspended, tagged, perDay, revlog,
                   marked, leech, quota>>

Retire ==
    /\ pc = "retire"
    /\ IF GateDone THEN Skip("retire", "suspendLeeches")
       ELSE \E ans \in RetireAnswers, fail \in RetireFails :
               Finish("retire",
                      RetireLoop(Start(suspended, tagged, perDay), 1, ans, fail),
                      "suspendLeeches")
    /\ UNCHANGED <<last_run, day, Config, revlog, marked, leech, quota>>

SuspendLeeches ==
    /\ pc = "suspendLeeches"
    /\ IF GateDone
       THEN Skip("suspendLeeches", "adjustReview") /\ UNCHANGED leech
       ELSE \E a \in BOOLEAN, fail \in LeechFails :
               LET st == Start(suspended, tagged, perDay)
               IN  /\ Finish("suspendLeeches", SuspendLeechesRun(st, a, fail),
                             "adjustReview")
                   /\ leech' = SuspendLeechesLocals(st, fail)
    /\ UNCHANGED <<last_run, day, Config, revlog, marked, quota>>

AdjustReview ==
    /\ pc = "adjustReview"
    /\ IF GateDone THEN Skip("adjustReview", "update_last_run")
       ELSE \E ans \in AdjustAnswers, fail \in AdjustFails :
               Finish("adjustReview",
                      AdjustLoop(Start(suspended, tagged, perDay), 1, ans, fail,
                                 revlog),
                      "update_last_run")
    /\ UNCHANGED <<last_run, day, Config, revlog, marked, leech, quota>>

\* update_last_run (lines 268-274): the value it leaves in config.last_run
NewLastRunStale == last_run
NewLastRunNoGuard == day
NewLastRun == IF last_run >= day THEN last_run ELSE day

\* update_last_run, itself behind dryrun_fence
UpdateLastRun ==
    /\ pc = "update_last_run"
    /\ pc' = "idle"
    /\ dryrun_fence(
         /\ last_run' = NewLastRun
         /\ marked' = IF NewLastRun # last_run THEN marked \cup {day} ELSE marked,
         UNCHANGED <<last_run, marked>>)
    /\ run' = [run EXCEPT !.op = "update_last_run", !.gate = "none",
                          !.muts = 0, !.prompts = 0, !.exc = FALSE]
    /\ UNCHANGED <<day, Config, suspended, tagged, perDay, revlog, leech, quota>>

\* the clock: the day get_day() returns changes, forwards or backwards
Tick ==
    /\ \E d \in 1 .. MaxDay : d # day /\ day' = d
    /\ UNCHANGED <<last_run, Config, suspended, tagged, perDay, revlog, pc,
                   run, marked, leech, quota>>

MainLogs == {[time |-> <<30, 1>>, again |-> <<1, 2>>]}

Init ==
    /\ last_run = 0
    /\ day = 1
    /\ dryrun \in BOOLEAN /\ debug \in BOOLEAN /\ verbose \in BOOLEAN
    /\ suspend_frac = Den \div 2
    /\ unsuspend_buffer_frac = 0
    /\ min_count = 0
    /\ suspended \in SUBSET Cards
    /\ tagged \in SUBSET Notes
    /\ perDay = [c \in Confs |-> <<200, 20>>]
    /\ revlog \in {[i \in 1 .. Len(review_time_limits) |-> l] : l \in MainLogs}
    /\ pc = "idle"
    /\ run = NoRun
    /\ marked = {}
    /\ leech = NoLeech
    /\ quota = NoQuota

Next == Startup \/ Retire \/ SuspendLeeches \/ AdjustReview \/ UpdateLastRun
        \/ Tick

Spec == Init /\ [][Next]_vars

---------------------------------------------------------------------------
(* The index computation of suspendLeeches over all configurations *)

InitIdx ==
    /\ last_run = 0 /\ day = 1
    /\ dryrun = TRUE /\ debug = FALSE /\ verbose = TRUE
    /\ suspend_frac \in 0 .. MaxFrac
    /\ unsuspend_buffer_frac \in 0 .. MaxFrac
    /\ min_count \in (0 - 1) .. MaxMinCount
    /\ suspended = {} /\ tagged = {}
    /\ perDay = [c \in Confs |-> <<200, 20>>]
    /\ revlog = [i \in 1 .. Len(review_time_limits) |->
                    [time |-> NoData, again |-> NoData]]
    /\ pc = "idle" /\ run = NoRun /\ marked = {}
    /\ leech = NoLeech /\ quota = NoQuota

\* lines 138-149 for n candidate cards
LeechIndices ==
    /\ \E n \in 1 .. MaxN :
          leech' = LeechLocals(n, suspend_frac, unsuspend_buffer_frac, min_count)
    /\ UNCHANGED <<last_run, day, Config, suspended, tagged, perDay, revlog, pc,
                   run, marked, quota>>

NextIdx == LeechIndices

SpecIdx == InitIdx /\ [][NextIdx]_vars

---------------------------------------------------------------------------
(* The quota computation of adjustReview over all measured values *)

InitQuota ==
    /\ last_run = 0 /\ day = 1
    /\ dryrun = TRUE /\ debug = FALSE /\ verbose = TRUE
    /\ suspend_frac = 0 /\ unsuspend_buffer_frac = Den /\ min_count = 0
    /\ suspended = {} /\ tagged = {}
    /\ perDay = [c \in Confs |-> <<200, 20>>]
    /\ revlog \in {[i \in 1 .. Len(review_time_limits) |-> l] : l \in Logs}
    /\ pc = "idle" /\ run = NoRun /\ marked = {}
    /\ leech = NoLeech /\ quota = NoQuota

\* lines 225-257 for entry i
QuotaEntry ==
    /\ \E i \in 1 .. Len(review_time_limits) :
          quota' = [entry |-> i, log |-> revlog[i],
                    perDay |-> QuotaPerDay(review_time_limits[i], revlog[i])]
    /\ UNCHANGED <<last_run, day, Config, suspended, tagged, perDay, revlog, pc,
                   run, marked, leech>>

NextQuota == QuotaEntry

SpecQuota == InitQuota /\ [][NextQuota]_vars

---------------------------------------------------------------------------
(* Properties *)

Host == <<suspended, tagged, perDay>>

\* C1: whenever retire, suspendLeeches or adjustReview is invoked with
\* last_run >= the start of the current day, it issues no host mutation call
\* and no confirmation dialog and leaves cards, tags and deck configurations
\* unchanged.
C1_DailyGate ==
    [][(pc \in Ops /\ pc' # pc /\ last_run >= day)
         => /\ UNCHANGED Host
            /\ run'.muts = 0 /\ run'.prompts = 0 /\ ~run'.exc]_vars

C1_Witness ==
    /\ run.op = "adjustReview" /\ run.gate = "done"
    /\ ~dryrun /\ verbose /\ last_run = day

\* C2: with config.dryrun set, no step ever changes the suspended cards, the
\* tags or a deck's perDay values, and no host mutation call is issued.
C2_DryRun ==
    [][dryrun => (UNCHANGED Host /\ run'.muts = 0)]_vars

C2_Witness ==
    /\ dryrun /\ pc = "idle" /\ run.op = "update_last_run"
    /\ run.pending0 /\ day = MaxDay

\* C3: for N >= 1 candidate cards, fractions >= 0 and any min_count the computed
\* unsuspend_ind is <= suspend_ind, so the assert of suspendLeeches passes.
C3_IndexOrder ==
    leech.N >= 1 => (leech.unsuspend_ind <= leech.suspend_ind /\ leech.assert_ok)

C3_Witness ==
    /\ leech.N >= 2 /\ suspend_frac > 0 /\ unsuspend_buffer_frac > 0
    /\ leech.unsuspend_ind < leech.suspend_ind

\* C4: when retire runs with the gate pending, dryrun off and every
\* confirmation accepted (all three calls of every entry are issued), then
\* for each configured entry the cards of the deck that were not retired and
\* suspended and lie above the threshold end up suspended and tagged, those
\* that were retired and suspended and lie at or below it end up unsuspended,
\* and no other card's suspended flag or tag changes.
C4_Retirement ==
    [][(/\ pc = "retire" /\ pc' = "suspendLeeches" /\ last_run < day
        /\ ~dryrun /\ ~run'.exc
        /\ run'.muts = 3 * Len(deck_retirements))
       => \A c \in Cards :
            LET retired == c \in suspended /\ note_of(c) \in tagged
                above == \E i \in 1 .. Len(deck_retirements) :
                           /\ c \in InDeck(deck_retirements[i].deck_name)
                           /\ ~retired
                           /\ interval(c) > deck_retirements[i].max_interval_days
                below == \E i \in 1 .. Len(deck_retirements) :
                           /\ c \in InDeck(deck_retirements[i].deck_name)
                           /\ retired
                           /\ interval(c) <= deck_retirements[i].max_interval_days
            IN  /\ above => (c \in suspended' /\ note_of(c) \in tagged')
                /\ below => c \notin suspended'
                /\ (~above /\ ~below)
                     => /\ (c \in suspended') = (c \in suspended)
                        /\ (note_of(c) \in tagged') = (note_of(c) \in tagged)]_vars

\* C5: the quota of an entry is <<floor(L * r / a), floor(L * r / (k * a))>>
\* with a and r the measured average review time and retention whenever the
\* window holds review data, and the configured defaults only when it holds
\* none.
C5_Quota ==
    quota.entry # 0 =>
        LET tl == review_time_limits[quota.entry]
            a == IF IsData(quota.log.time) THEN quota.log.time
                 ELSE <<default_review_seconds, 1>>
            r == IF IsData(quota.log.again) THEN OneMinus(quota.log.again)
                 ELSE goal_retention
        IN  a[1] # 0 =>
              quota.perDay =
                << (tl.review_time_limit_sec * r[1] * a[2]) \div (r[2] * a[1]),
                   (tl.review_time_limit_sec * r[1] * a[2])
                       \div (tl.new_card_assumed_repeat * r[2] * a[1]) >>

\* C6: last_run never decreases, is changed only by update_last_run, and is
\* changed at most once on any calendar day, also when the clock moves back.
C6_LastRun ==
    [][/\ last_run' >= last_run
       /\ last_run' # last_run
            => (pc = "update_last_run" /\ day' = day /\ day \notin marked)]_vars

C6_Witness ==
    /\ marked = 1 .. MaxDay /\ last_run = MaxDay /\ day < MaxDay
    /\ pc = "idle" /\ run.op = "update_last_run"

\* C7 as stated: on a startup that began with the gate pending, the final
\* update_last_run step takes the pending-to-done transition, so that the
\* sequence completes with last_run equal to the start of the current day.
C7_Original ==
    [][(pc = "update_last_run" /\ pc' = "idle" /\ run.pending0)
         => last_run' = day]_vars

\* C7 amended: the callbacks run in the order retire, suspendLeeches,
\* adjustReview, update_last_run, the sequence ending early only when an
\* exception reaches the host; the three operations leave last_run alone;
\* update_last_run sets last_run to the start of the current day when dryrun
\* is off and last_run is older, and leaves it unchanged when dryrun is on.
C7_Amended ==
    [][/\ pc' # pc =>
            \/ <<pc, pc'>> \in {<<"idle", "retire">>,
                                <<"retire", "suspendLeeches">>,
                                <<"suspendLeeches", "adjustReview">>,
                                <<"adjustReview", "update_last_run">>,
                                <<"update_last_run", "idle">>}
            \/ pc \in Ops /\ pc' = "idle" /\ run'.exc /\ ~debug
       /\ pc \in Ops => last_run' = last_run
       /\ (pc = "update_last_run" /\ pc' = "idle")
            => last_run' = IF dryrun THEN last_run ELSE Max(last_run, day)]_vars

C7_Witness ==
    /\ ~dryrun /\ run.pending0 /\ pc = "idle" /\ run.op = "update_last_run"
    /\ last_run = day /\ day \in marked

\* C8 as stated: for min_count >= 0 both indices lie in [min_count, N - 1].
C8_Original ==
    (leech.N >= 1 /\ leech.min_count >= 0) =>
        \A ind \in {leech.suspend_ind, leech.unsuspend_ind} :
            ind >= leech.min_count /\ ind <= leech.N - 1

\* C8 amended: for min_count >= 0 each index is floor(N * (1 - frac)) raised to min_count and
\* then capped at N - 1: it is <= N - 1 and >= min(min_count, N - 1), and
\* >= min_count only when min_count <= N - 1.
C8_Amended ==
    (leech.N >= 1 /\ leech.min_count >= 0) =>
        \A p \in {<<leech.suspend_raw, leech.suspend_ind>>,
                  <<leech.unsuspend_raw, leech.unsuspend_ind>>} :
            /\ p[2] <= leech.N - 1
            /\ p[2] >= Min(leech.min_count, leech.N - 1)
            /\ (p[1] >= leech.min_count /\ p[1] <= leech.N - 1) => p[2] = p[1]
            /\ (p[1] < leech.min_count /\ leech.min_count <= leech.N - 1)
                 => p[2] = leech.min_count

C8_Witness ==
    /\ leech.N >= 2 /\ leech.min_count > leech.N - 1
    /\ leech.suspend_ind = leech.N - 1 /\ leech.suspend_raw < leech.N - 1

\* C9 as stated: an operation that raises has applied none of its mutations.
C9_Original ==
    [][(pc \in Ops /\ pc' # pc /\ run'.exc) => UNCHANGED Host]_vars

\* C9 amended: an exception ends the operation where it is raised and nothing
\* is undone: with no mutation call made before it the host state is
\* unchanged, and otherwise the calls made before it stay applied (when
\* adjustReview raises after one save, the first entry's deck configuration
\* holds the computed quota and the other is untouched).
C9_Amended ==
    [][(pc \in Ops /\ pc' # pc /\ run'.exc)
         => /\ run'.muts = 0 => UNCHANGED Host
            /\ (pc = "adjustReview" /\ run'.muts = 1)
                 => LET c1 == conf_of(review_time_limits[1].deck_name)
                    IN  /\ perDay'[c1] = QuotaPerDay(review_time_limits[1], revlog[1])
                        /\ \A c \in Confs \ {c1} : perDay'[c] = perDay[c]
                        /\ UNCHANGED <<suspended, tagged>>]_vars

C9_Witness ==
    /\ run.op = "adjustReview" /\ run.exc /\ run.muts = 1
    /\ perDay[conf_of(review_time_limits[1].deck_name)] # <<200, 20>>

\* C10 as stated: within one startup no card is passed both to a suspend
\* call and to an unsuspend call.
C10_Original == ~run.cross

\* C10 amended: within one deck entry of retire, and within one invocation of
\* suspendLeeches, no card is passed both to the suspend call and to the
\* unsuspend call; across the entries and operations of one startup a card
\* can be.
C10_Amended == ~run.both

C10_Witness ==
    /\ run.op = "suspendLeeches" /\ run.muts = 2 /\ run.cross /\ ~run.both

====
